---- MODULE Spec2Model ----
(***************************************************************************)
(* A model of src/parse_logs.py: the script that scans a JSON-lines log    *)
(* from its end and writes the most recent Error/Warning entries whose     *)
(* message mentions "Spotify" to recent_spotify_errors.txt.                *)
(*                                                                         *)
(* Text is modelled as TLA+ strings (TLC treats a string as the sequence   *)
(* of its characters: Len, SubSeq and \o apply).  The raw lines of the log *)
(* are real JSON text; the pre-filter is a substring search on that text   *)
(* and json.loads is a character-level parser of it.                       *)
(***************************************************************************)
EXTENDS Integers, Sequences, FiniteSets, TLC

VARIABLES
    exists,     \* os.path.exists(log_file)
    file,       \* the log file's content, as f.readlines() will see it
    outBefore,  \* recent_spotify_errors.txt as it was before the run (history)
    pc,         \* the script's position
    lines,      \* the list `lines`
    it,         \* how many elements of reversed(lines) the for loop has taken
    count,      \* the local `count`
    outfile,    \* recent_spotify_errors.txt: [present, writes]
    console,    \* what print() has put on stdout
    parsed      \* file positions of the lines json.loads was called on (history)

vars == <<exists, file, outBefore, pc, lines, it, count, outfile, console, parsed>>

----------------------------------------------------------------------------
(* Program constants *)

\* `if count >= 30: break`
MaxMatches == 30

\* `entry['@x'][:500]`
ExcerptLen == 500

----------------------------------------------------------------------------
(* Text *)

CharAt(s, i) == SubSeq(s, i, i)

Min(a, b) == IF a <= b THEN a ELSE b

\* Python's `pat in s` on two str values
Contains(s, pat) ==
    \E i \in 1..(Len(s) - Len(pat) + 1) : SubSeq(s, i, i + Len(pat) - 1) = pat

\* s[:n] on a str or a list
Prefix(s, n) == SubSeq(s, 1, Min(Len(s), n))

----------------------------------------------------------------------------
(* JSON values, as json.loads builds them.  Every value has the same shape: *)
(* k is the Python type, s the text of a str / int / bool, m the members    *)
(* of a dict (in document order, duplicates kept) or the items of a list.   *)

JNull      == [k |-> "null", s |-> "",  m |-> <<>>]
JStr(t)    == [k |-> "str",  s |-> t,   m |-> <<>>]
JNum(t)    == [k |-> "num",  s |-> t,   m |-> <<>>]
JBool(t)   == [k |-> "bool", s |-> t,   m |-> <<>>]
JObj(mem)  == [k |-> "obj",  s |-> "",  m |-> mem]
JArr(itm)  == [k |-> "arr",  s |-> "",  m |-> itm]
Member(key, val) == [key |-> key, val |-> val]

Whitespace == {" ", "\t", "\n", "\r"}
Digits     == {"0", "1", "2", "3", "4", "5", "6", "7", "8", "9"}

Ok(v, i) == [ok |-> TRUE,  v |-> v,     i |-> i]
Fail     == [ok |-> FALSE, v |-> JNull, i |-> 0]

\* the character at position i, "" past the end
Peek(s, i) == IF i <= Len(s) THEN SubSeq(s, i, i) ELSE ""

RECURSIVE SkipWs(_, _)
SkipWs(s, i) == IF Peek(s, i) \in Whitespace THEN SkipWs(s, i + 1) ELSE i

\* The least element of a non-empty set of numbers
Least(S) == CHOOSE n \in S : \A o \in S : n <= o

\* the positions from i to j of s that hold no ordinary string character: a
\* quote, a backslash, a control character, or the end of the text
SpecialIn(s, i, j) == {n \in i..j : Peek(s, n) \in {"", "\"", "\\", "\n", "\t", "\r"}}

\* The first position >= i of s that is not an ordinary string character,
\* Len(s)+1 when there is none (searched a window of 16 positions at a time)
RECURSIVE NextSpecial(_, _)
NextSpecial(s, i) ==
    IF SpecialIn(s, i, i + 15) = {} THEN NextSpecial(s, i + 16)
    ELSE Least(SpecialIn(s, i, i + 15))

RECURSIVE ScanString(_, _, _), ScanStringTo(_, _, _, _), ScanStringAt(_, _, _, _)

\* The body of a string literal from position i (after the opening quote):
\* the decoded text and the position after the closing quote.  Escapes
\* decoded: \" \\ \/ \n \t \r (the inputs drawn use no \b, \f or \uXXXX).
ScanString(s, i, acc) == ScanStringTo(s, i, acc, NextSpecial(s, i))

\* ... the ordinary characters up to position j
ScanStringTo(s, i, acc, j) == ScanStringAt(s, acc \o SubSeq(s, i, j - 1), Peek(s, j), j)

\* ... at the special character c found at position j
ScanStringAt(s, acc, c, j) ==
    CASE c = "\"" -> Ok(JStr(acc), j + 1)
      [] c = "\\" /\ Peek(s, j + 1) \in {"\"", "\\", "/"} ->
            ScanString(s, j + 2, acc \o Peek(s, j + 1))
      [] c = "\\" /\ Peek(s, j + 1) = "n" -> ScanString(s, j + 2, acc \o "\n")
      [] c = "\\" /\ Peek(s, j + 1) = "t" -> ScanString(s, j + 2, acc \o "\t")
      [] c = "\\" /\ Peek(s, j + 1) = "r" -> ScanString(s, j + 2, acc \o "\r")
      [] OTHER -> Fail   \* unterminated, bad escape, raw control character

\* The end of the run of digits starting at i
RECURSIVE DigitsEnd(_, _)
DigitsEnd(s, i) == IF Peek(s, i) \in Digits THEN DigitsEnd(s, i + 1) ELSE i

\* An integer literal -?(0|[1-9][0-9]*) whose digits start at d  (the inputs
\* drawn use no fraction or exponent)
ScanDigits(s, i, d, e) == IF e = d THEN Fail ELSE Ok(JNum(SubSeq(s, i, e - 1)), e)

ScanNumberAt(s, i, d) ==
    ScanDigits(s, i, d, IF Peek(s, d) = "0" THEN d + 1 ELSE DigitsEnd(s, d))

ScanNumber(s, i) == ScanNumberAt(s, i, IF Peek(s, i) = "-" THEN i + 1 ELSE i)

StartsWith(s, i, w) == i + Len(w) - 1 <= Len(s) /\ SubSeq(s, i, i + Len(w) - 1) = w

RECURSIVE ParseValue(_, _), ParseMembers(_, _, _), ParseItems(_, _, _)
RECURSIVE MemberKey(_, _, _), MemberColon(_, _, _, _), MemberValue(_, _, _, _)
RECURSIVE MemberEnd(_, _, _), ItemValue(_, _, _), ItemEnd(_, _, _)

\* The JSON value starting at position i of s
ParseValue(s, i) ==
    CASE Peek(s, i) = "\"" -> ScanString(s, i + 1, "")
      [] Peek(s, i) = "{" ->
            IF Peek(s, SkipWs(s, i + 1)) = "}"
            THEN Ok(JObj(<<>>), SkipWs(s, i + 1) + 1)
            ELSE ParseMembers(s, SkipWs(s, i + 1), <<>>)
      [] Peek(s, i) = "[" ->
            IF Peek(s, SkipWs(s, i + 1)) = "]"
            THEN Ok(JArr(<<>>), SkipWs(s, i + 1) + 1)
            ELSE ParseItems(s, SkipWs(s, i + 1), <<>>)
      [] Peek(s, i) \in Digits \cup {"-"} -> ScanNumber(s, i)
      [] StartsWith(s, i, "null")  -> Ok(JNull, i + 4)
      [] StartsWith(s, i, "true")  -> Ok(JBool("True"), i + 4)
      [] StartsWith(s, i, "false") -> Ok(JBool("False"), i + 5)
      [] OTHER -> Fail

\* The members of an object from position i (at a key's opening quote),
\* after the members acc
ParseMembers(s, i, acc) ==
    IF Peek(s, i) = "\"" THEN MemberKey(s, acc, ScanString(s, i + 1, "")) ELSE Fail

\* ... once the key is scanned: the colon
MemberKey(s, acc, key) ==
    IF key.ok THEN MemberColon(s, acc, key.v.s, SkipWs(s, key.i)) ELSE Fail

\* ... the value after the colon
MemberColon(s, acc, k, colon) ==
    IF Peek(s, colon) = ":"
    THEN MemberValue(s, acc, k, ParseValue(s, SkipWs(s, colon + 1))) ELSE Fail

MemberValue(s, acc, k, val) ==
    IF val.ok THEN MemberEnd(s, Append(acc, Member(k, val.v)), SkipWs(s, val.i)) ELSE Fail

\* ... the closing brace, or a comma and the next member
MemberEnd(s, mem, j) ==
    CASE Peek(s, j) = "}" -> Ok(JObj(mem), j + 1)
      [] Peek(s, j) = "," -> ParseMembers(s, SkipWs(s, j + 1), mem)
      [] OTHER -> Fail

\* The items of an array from position i (at an item's first character)
ParseItems(s, i, acc) == ItemValue(s, acc, ParseValue(s, i))

ItemValue(s, acc, val) ==
    IF val.ok THEN ItemEnd(s, Append(acc, Member("", val.v)), SkipWs(s, val.i)) ELSE Fail

ItemEnd(s, itm, j) ==
    CASE Peek(s, j) = "]" -> Ok(JArr(itm), j + 1)
      [] Peek(s, j) = "," -> ParseItems(s, SkipWs(s, j + 1), itm)
      [] OTHER -> Fail

\* r when nothing but whitespace follows the value, else the failure
WholeText(s, r) == IF r.ok /\ SkipWs(s, r.i) = Len(s) + 1 THEN r ELSE Fail

\* json.loads(s): one value, whitespace around it, nothing after it;
\* ok = FALSE stands for json.JSONDecodeError
Loads(s) == WholeText(s, ParseValue(s, SkipWs(s, 1)))

----------------------------------------------------------------------------
(* Python operations on the parsed value *)

\* `key in entry` for a dict
HasKey(obj, key) == \E n \in 1..Len(obj.m) : obj.m[n].key = key

\* entry.get(key, default): json.loads keeps the last of duplicate keys
Get(obj, key, default) ==
    LET S == {n \in 1..Len(obj.m) : obj.m[n].key = key}
    IN  IF S = {} THEN default
        ELSE obj.m[CHOOSE n \in S : \A o \in S : o <= n].val

\* The dict's items as Python holds them: a key keeps the place of its first
\* occurrence and the value of its last
DictItems(obj) ==
    LET First == {n \in 1..Len(obj.m) : \A o \in 1..(n - 1) : obj.m[o].key # obj.m[n].key}
        F[n \in 0..Len(obj.m)] ==
            IF n = 0 THEN <<>>
            ELSE IF n \in First
                 THEN Append(F[n - 1], Member(obj.m[n].key, Get(obj, obj.m[n].key, JNull)))
                 ELSE F[n - 1]
    IN  F[Len(obj.m)]

\* repr() of a str: the quote is ' unless the text holds ' and no "
RECURSIVE EscapeRepr(_, _)
EscapeRepr(s, q) ==
    IF s = "" THEN ""
    ELSE LET c == Head(s)
             e == CASE c = "\\" -> "\\\\"
                    [] c = q    -> "\\" \o q
                    [] c = "\n" -> "\\n"
                    [] c = "\t" -> "\\t"
                    [] c = "\r" -> "\\r"
                    [] OTHER    -> c
         IN  e \o EscapeRepr(Tail(s), q)

StrRepr(s) ==
    LET q == IF Contains(s, "'") /\ ~Contains(s, "\"") THEN "\"" ELSE "'"
    IN  q \o EscapeRepr(s, q) \o q

RECURSIVE PyRepr(_), JoinRepr(_, _)

\* repr(v)
PyRepr(v) ==
    CASE v.k = "str"  -> StrRepr(v.s)
      [] v.k = "num"  -> IF v.s = "-0" THEN "0" ELSE v.s
      [] v.k = "bool" -> v.s
      [] v.k = "null" -> "None"
      [] v.k = "arr"  -> "[" \o JoinRepr(v.m, FALSE) \o "]"
      [] v.k = "obj"  -> "{" \o JoinRepr(DictItems(v), TRUE) \o "}"

\* the reprs of a list's items or a dict's items, joined by ", "
JoinRepr(m, keyed) ==
    IF m = <<>> THEN ""
    ELSE LET one == (IF keyed THEN StrRepr(Head(m).key) \o ": " ELSE "") \o PyRepr(Head(m).val)
         IN  IF Len(m) = 1 THEN one ELSE one \o ", " \o JoinRepr(Tail(m), keyed)

\* str(v), what an f-string's {v} renders
PyStr(v) == IF v.k = "str" THEN v.s ELSE PyRepr(v)

\* `needle in v`: "true", "false", or "error" (TypeError: v is not iterable)
InOp(needle, v) ==
    CASE v.k = "str" -> IF Contains(v.s, needle) THEN "true" ELSE "false"
      [] v.k = "arr" -> IF \E n \in 1..Len(v.m) : v.m[n].val = JStr(needle) THEN "true" ELSE "false"
      [] v.k = "obj" -> IF HasKey(v, needle) THEN "true" ELSE "false"
      [] OTHER       -> "error"

\* v[:n]: ok = FALSE stands for TypeError (None, int, bool are not
\* subscriptable; a dict does not take a slice)
Slice(v, n) ==
    CASE v.k = "str" -> Ok(JStr(Prefix(v.s, n)), 0)
      [] v.k = "arr" -> Ok(JArr(Prefix(v.m, n)), 0)
      [] OTHER       -> Fail

----------------------------------------------------------------------------
(* The log lines drawn as input: raw JSON text, each ending in the newline  *)
(* f.readlines() keeps.                                                     *)

\* a match with no optional field
LineError ==
    "{\"@t\":\"T01\",\"@l\":\"Error\",\"@mt\":\"Spotify API failed\"}\n"

\* a match with Status, Response and a short @x
LineFull ==
    "{\"@t\":\"T02\",\"@l\":\"Warning\",\"@mt\":\"Call to Spotify throttled\",\"Status\":429,\"Response\":\"slow down\",\"@x\":\"Boom\"}\n"

\* a match with Status only
LineStatus ==
    "{\"@t\":\"T03\",\"@l\":\"Error\",\"@mt\":\"Spotify auth\",\"Status\":\"Unauthorized\"}\n"

\* level Information: fails the pre-filter
LineInfo ==
    "{\"@t\":\"T04\",\"@l\":\"Information\",\"@mt\":\"Spotify ok\"}\n"

\* level Error serialized with a space after the colon
LineSpaced ==
    "{\"@t\":\"T05\",\"@l\": \"Error\",\"@mt\":\"Spotify spaced\"}\n"

\* an Error about something else
LineOther ==
    "{\"@t\":\"T06\",\"@l\":\"Error\",\"@mt\":\"Disk full\"}\n"

\* a Warning with no @mt
LineNoMessage ==
    "{\"@t\":\"T07\",\"@l\":\"Warning\"}\n"

\* passes the pre-filter, is not JSON (cut short)
LineMalformed ==
    "{\"@t\":\"T08\",\"@l\":\"Error\",\"@mt\":\"Spotify trunc\n"

\* level Information, the pre-filter text in a nested object
LineNested ==
    "{\"@t\":\"T09\",\"@l\":\"Information\",\"@mt\":\"Spotify nested\",\"Props\":{\"@l\":\"Error\"}}\n"

\* a duplicate @l key: the later one, Debug, is the level
LineDuplicate ==
    "{\"@t\":\"T10\",\"@l\":\"Warning\",\"@l\":\"Debug\",\"@mt\":\"Spotify dup\"}\n"

\* a match whose @x is null
LineNullTrace ==
    "{\"@t\":\"T11\",\"@l\":\"Error\",\"@mt\":\"Spotify down\",\"Status\":500,\"@x\":null}\n"

\* an @mt that is a number
LineNumMessage ==
    "{\"@t\":\"T12\",\"@l\":\"Error\",\"@mt\":5}\n"

\* valid JSON that is not an object
LineArray ==
    "[{\"@l\":\"Error\",\"@mt\":\"Spotify\"}]\n"

RECURSIVE Repeat(_, _)
Repeat(s, n) == IF n = 0 THEN "" ELSE s \o Repeat(s, n - 1)

\* 505 characters: longer than the excerpt the script keeps
LongTrace == Repeat("0123456789", 50) \o "<cut>"

\* a match whose @x is longer than 500 characters
LineLongTrace ==
    "{\"@t\":\"T14\",\"@l\":\"Error\",\"@mt\":\"Spotify crash\",\"@x\":\"" \o LongTrace \o "\"}\n"

LineSet ==
    {LineError, LineFull, LineStatus, LineInfo, LineSpaced, LineOther,
     LineNoMessage, LineMalformed, LineNested, LineDuplicate, LineNullTrace,
     LineNumMessage, LineArray, LineLongTrace}

\* The i-th line of a long log: a match stamped with its position
Stamped(i) ==
    "{\"@t\":\"" \o ToString(i) \o "\",\"@l\":\"Error\",\"@mt\":\"Spotify timeout\"}\n"

\* A log of n stamped matches, its p-th line (if any) replaced by s
LongFile(n, p, s) == [i \in 1..n |-> IF i = p THEN s ELSE Stamped(i)]

(* Bounds of the inputs *)

\* short logs hold up to MaxLines lines, each any line of LineSet
MaxLines == 2

\* long logs hold from MaxMatches - 1 up to MaxMatches + MaxExtra lines
MaxExtra == 2

ShortFiles == UNION {[1..n -> LineSet] : n \in 0..MaxLines}

\* the places of the replaced line: none, the first line, the line the cap
\* leaves just out of reach and the one just within it, the last line
Places(n) == {0, 1, n - MaxMatches, n - MaxMatches + 1, n} \cap 0..n

LongFiles ==
    {LongFile(f[1], f[2], f[3]) :
        f \in {g \in ((MaxMatches - 1)..(MaxMatches + MaxExtra))
                       \X (0..(MaxMatches + MaxExtra))
                       \X {LineNullTrace, LineMalformed, LineOther, LineInfo} :
                  g[2] \in Places(g[1])}}

LogFiles == ShortFiles \cup LongFiles

----------------------------------------------------------------------------
(* The body of the scan loop *)

\* A faulty variant of the pre-filter: the level words alone, wherever they stand
PreFilterLoose(line) == Contains(line, "\"Error\"") \/ Contains(line, "\"Warning\"")

\* the pre-filter on the raw line
PreFilter(line) ==
    Contains(line, "\"@l\":\"Error\"") \/ Contains(line, "\"@l\":\"Warning\"")

\* A faulty variant of the message test: one every str message passes
HasSpotifyAny(msg) == InOp("", msg)

\* `'Spotify' in msg`
HasSpotify(msg) == InOp("Spotify", msg)

\* one outfile.write() call
Write(kind, text) == [kind |-> kind, text |-> text]

MainLine(entry, msg) ==
    "[" \o PyStr(Get(entry, "@t", JNull)) \o "] " \o PyStr(Get(entry, "@l", JNull))
        \o ": " \o PyStr(msg) \o "\n"

StatusLine(entry) == "   Status: " \o PyStr(Get(entry, "Status", JNull)) \o "\n"

ResponseLine(entry) == "   Response: " \o PyStr(Get(entry, "Response", JNull)) \o "\n"

\* the excerpt of @x and the marker after it
ExceptionLine(excerpt) == "   Exception: " \o PyStr(excerpt) \o "...\n"

\* What handling one line did: whether json.loads was called, the writes
\* made, whether count was incremented, whether an exception left the loop.
Outcome(p, w, c) == [parsed |-> p, writes |-> w, counted |-> c, raised |-> FALSE]

\* A faulty variant of the handler: none, the exception leaves the loop
ExceptRaise(w) == [parsed |-> TRUE, writes |-> w, counted |-> FALSE, raised |-> TRUE]

\* `except: pass`: whatever was written before the fault stays written, the
\* increment is not reached, the loop goes on
ExceptPass(w) == Outcome(TRUE, w, FALSE)

\* The writes of a match and its count
MatchBody(entry, msg) ==
    LET w1 == <<Write("main", MainLine(entry, msg))>>
        w2 == IF HasKey(entry, "Status")
              THEN Append(w1, Write("Status", StatusLine(entry))) ELSE w1
        w3 == IF HasKey(entry, "Response")
              THEN Append(w2, Write("Response", ResponseLine(entry))) ELSE w2
    IN  IF ~HasKey(entry, "@x") THEN Outcome(TRUE, w3, TRUE)
        ELSE LET x == Slice(Get(entry, "@x", JNull), ExcerptLen) IN
             IF x.ok
             THEN Outcome(TRUE, Append(w3, Write("Exception", ExceptionLine(x.v))), TRUE)
             ELSE ExceptPass(w3)     \* TypeError building the f-string

\* The try block
TryBody(line) ==
    LET r == Loads(line) IN
    IF ~r.ok THEN ExceptPass(<<>>)                \* json.JSONDecodeError
    ELSE IF r.v.k # "obj" THEN ExceptPass(<<>>)   \* AttributeError: no .get
    ELSE LET msg == Get(r.v, "@mt", JStr(""))
             hit == HasSpotify(msg)
         IN  CASE hit = "error" -> ExceptPass(<<>>)   \* TypeError: not iterable
               [] hit = "false" -> Outcome(TRUE, <<>>, FALSE)
               [] hit = "true"  -> MatchBody(r.v, msg)

\* One iteration of the loop after the cap test
HandleLine(line) ==
    IF PreFilter(line) THEN TryBody(line) ELSE Outcome(FALSE, <<>>, FALSE)

\* A faulty variant of the scan order: the lines in file order
Forward(ls) == [n \in 1..Len(ls) |-> [pos |-> n, text |-> ls[n]]]

\* reversed(lines), each element with its position in the file
Reversed(ls) ==
    [n \in 1..Len(ls) |-> [pos |-> Len(ls) + 1 - n, text |-> ls[Len(ls) + 1 - n]]]

\* the writes of one line, tagged with the position of the line (history)
Tagged(w, pos) ==
    [n \in 1..Len(w) |-> [pos |-> pos, kind |-> w[n].kind, text |-> w[n].text]]

----------------------------------------------------------------------------
(* The script *)

NoFile == [present |-> FALSE, writes |-> <<>>]

\* an output file left by an earlier run
StaleFile ==
    [present |-> TRUE,
     writes |-> <<[pos |-> 0, kind |-> "main", text |-> "[T00] Error: Spotify stale\n"]>>]

\* A faulty variant: no exit(), the script goes on to open the missing file
AfterNotFoundFallThrough == "read"

\* where the script goes after printing "Log file not found": exit()
AfterNotFound == "exited"

Init ==
    /\ exists \in BOOLEAN
    /\ file \in (IF exists THEN LogFiles ELSE {<<>>})
    /\ outBefore \in {NoFile, StaleFile}
    /\ outfile = outBefore
    /\ pc = "start"
    /\ lines = <<>>
    /\ it = 0
    /\ count = 0
    /\ console = <<>>
    /\ parsed = {}

\* `if not os.path.exists(log_file): print(...); exit()`
LogFileNotFound ==
    /\ pc = "start"
    /\ ~exists
    /\ console' = Append(console, "Log file not found")
    /\ pc' = AfterNotFound
    /\ UNCHANGED <<exists, file, outBefore, lines, it, count, outfile, parsed>>

\* `lines = f.readlines()`; open() of a missing file raises
ReadLines ==
    /\ \/ pc = "start" /\ exists
       \/ pc = "read"
    /\ IF exists
       THEN lines' = file /\ pc' = "print"
       ELSE lines' = lines /\ pc' = "crashed"
    /\ UNCHANGED <<exists, file, outBefore, it, count, outfile, console, parsed>>

\* the two print() calls
PrintHeader ==
    /\ pc = "print"
    /\ console' = console \o <<"Total lines: " \o ToString(Len(lines)),
                               "Last 10 Errors/Warnings with 'Spotify':">>
    /\ pc' = "open"
    /\ UNCHANGED <<exists, file, outBefore, lines, it, count, outfile, parsed>>

\* `with open('recent_spotify_errors.txt', 'w') ...: count = 0`
OpenOutfile ==
    /\ pc = "open"
    /\ outfile' = [present |-> TRUE, writes |-> <<>>]
    /\ count' = 0
    /\ it' = 0
    /\ pc' = "scan"
    /\ UNCHANGED <<exists, file, outBefore, lines, console, parsed>>

\* `if count >= 30: break`
BreakAtCap ==
    /\ pc = "scan"
    /\ it < Len(lines)
    /\ count >= MaxMatches
    /\ pc' = "done"
    /\ UNCHANGED <<exists, file, outBefore, lines, it, count, outfile, console, parsed>>

\* one iteration of `for line in reversed(lines)` below the cap
ScanLine ==
    /\ pc = "scan"
    /\ it < Len(lines)
    /\ count < MaxMatches
    /\ LET cur == Reversed(lines)[it + 1]
           o == HandleLine(cur.text)
       IN  /\ outfile' = [outfile EXCEPT !.writes = @ \o Tagged(o.writes, cur.pos)]
           /\ count' = IF o.counted THEN count + 1 ELSE count
           /\ parsed' = IF o.parsed THEN parsed \cup {cur.pos} ELSE parsed
           /\ pc' = IF o.raised THEN "crashed" ELSE "scan"
    /\ it' = it + 1
    /\ UNCHANGED <<exists, file, outBefore, lines, console>>

\* reversed(lines) is exhausted: the with block closes the file
EndOfLines ==
    /\ pc = "scan"
    /\ it = Len(lines)
    /\ pc' = "done"
    /\ UNCHANGED <<exists, file, outBefore, lines, it, count, outfile, console, parsed>>

Next ==
    \/ LogFileNotFound
    \/ ReadLines
    \/ PrintHeader
    \/ OpenOutfile
    \/ BreakAtCap
    \/ ScanLine
    \/ EndOfLines

Spec == Init /\ [][Next]_vars

----------------------------------------------------------------------------
(* Vocabulary of the properties *)

\* the output file belongs to this run: it has been opened for writing
Scanning == pc \in {"scan", "done"}

\* the line the next iteration of the loop takes, when there is one
Taking == pc = "scan" /\ it < Len(lines) /\ count < MaxMatches
TakenPos == Len(lines) - it
TakenLine == lines[TakenPos]

\* the file positions the loop has been through
Examined == {p \in 1..Len(lines) : p > Len(lines) - it}

\* the indices of the main record lines in the output, and the file
\* positions they come from
MainWrites == {n \in 1..Len(outfile.writes) : outfile.writes[n].kind = "main"}
MainPositions == {outfile.writes[n].pos : n \in MainWrites}

\* the kinds of the lines written for file position p, in output order
RECURSIVE KindsFrom(_, _)
KindsFrom(w, p) ==
    IF w = <<>> THEN <<>>
    ELSE IF Head(w).pos = p THEN <<Head(w).kind>> \o KindsFrom(Tail(w), p)
    ELSE KindsFrom(Tail(w), p)

\* the entry json.loads gives for file position p
EntryAt(p) == Loads(lines[p]).v

\* the literal pre-filter substrings
HasLevelText(line) ==
    Contains(line, "\"@l\":\"Error\"") \/ Contains(line, "\"@l\":\"Warning\"")

\* the raw line parses as JSON
IsJson(line) == Loads(line).ok

\* the message of a parsed line contains "Spotify" (a value that is not an
\* object has no message)
MessageHasSpotify(line) ==
    /\ Loads(line).v.k = "obj"
    /\ Contains(PyStr(Get(Loads(line).v, "@mt", JStr(""))), "Spotify")

\* a qualifying line: passes the level pre-filter, parses, message has Spotify
Qualifies(line) == HasLevelText(line) /\ IsJson(line) /\ MessageHasSpotify(line)
Qualifying == {p \in 1..Len(lines) : Qualifies(lines[p])}

\* the n members of S closest to the end of the file
LastOf(S, n) == {p \in S : Cardinality({q \in S : q > p}) < n}

----------------------------------------------------------------------------
(* C1  Count cap: the output never holds more than 30 records; with more   *)
(* than 30 qualifying lines exactly 30 records are written, those of the   *)
(* 30 qualifying lines closest to the end of the file; once the count has  *)
(* reached 30 no earlier line is examined.                                 *)
CountCap ==
    /\ Scanning => Cardinality(MainWrites) <= MaxMatches
    /\ (pc = "done" /\ Cardinality(Qualifying) > MaxMatches) =>
           /\ Cardinality(MainWrites) = MaxMatches
           /\ MainPositions = LastOf(Qualifying, MaxMatches)
    /\ (Scanning /\ count >= MaxMatches) =>
           HandleLine(lines[Len(lines) - it + 1]).counted

(* C2  Reverse order: of any two records in the output the one written     *)
(* earlier comes from a later line of the input, and when the scan has run *)
(* through the whole file the records are those of all the matching lines. *)
ReverseOrder ==
    /\ Scanning =>
           \A i, j \in MainWrites :
               i < j => outfile.writes[i].pos > outfile.writes[j].pos
    /\ (pc = "done" /\ it = Len(lines)) => MainPositions = Qualifying

\* the scan went through the whole file and wrote the records of several
\* matching lines
ReverseOrderWitness ==
    pc = "done" /\ it = Len(lines) /\ Cardinality(MainPositions) >= 2

(* C3  Missing file: with no input file the script prints "Log file not    *)
(* found" and is over; the output file is as it was, nothing was read or   *)
(* processed and neither the total nor the header was printed.             *)
MissingFile ==
    (~exists /\ pc # "start") =>
        /\ pc = "exited"
        /\ ~ENABLED Next
        /\ console = <<"Log file not found">>
        /\ outfile = outBefore
        /\ lines = <<>> /\ it = 0 /\ count = 0 /\ parsed = {}

\* the script has exited on a missing input, an older output file in place
MissingFileWitness == ~exists /\ pc = "exited" /\ outBefore = StaleFile

\* a line that is not a malformed one: it lacks the pre-filter substring or
\* it parses
NotMalformed(line) == ~HasLevelText(line) \/ IsJson(line)

\* What a scan of the lines ls writes, from the end of ls towards its start,
\* c matches counted and the lines w written so far
RECURSIVE ScanAll(_, _, _)
ScanAll(ls, c, w) ==
    IF ls = <<>> \/ c >= MaxMatches THEN w
    ELSE ScanAll(SubSeq(ls, 1, Len(ls) - 1),
                 IF HandleLine(ls[Len(ls)]).counted THEN c + 1 ELSE c,
                 w \o HandleLine(ls[Len(ls)]).writes)

\* the text of the output file
OutputText == [n \in 1..Len(outfile.writes) |-> outfile.writes[n].text]
TextOf(w) == [n \in 1..Len(w) |-> w[n].text]

(* C4  Malformed JSON tolerance: taking a line that has the pre-filter     *)
(* substring and is not valid JSON writes nothing, leaves the count as it  *)
(* is and leaves the scan running on the next line; and the finished       *)
(* output is what a scan of the file without its malformed lines writes.   *)
MalformedSkipped ==
    /\ [][(Taking /\ HasLevelText(TakenLine) /\ ~IsJson(TakenLine)) =>
              /\ outfile' = outfile
              /\ count' = count
              /\ pc' = "scan"
              /\ it' = it + 1]_vars
    /\ [](pc = "done" =>
              OutputText = TextOf(ScanAll(SelectSeq(lines, NotMalformed), 0, <<>>)))

\* a malformed line was taken and a line before it in the file was written
MalformedSkippedWitness ==
    \E p \in Examined :
        /\ HasLevelText(lines[p]) /\ ~IsJson(lines[p])
        /\ \E q \in MainPositions : q < p

(* C5  Lexical pre-filter: taking a line whose raw text holds neither      *)
(* "@l":"Error" nor "@l":"Warning" does not parse it, writes nothing and   *)
(* leaves the count as it is, whatever its message.                        *)
PreFilterSensitive ==
    [][(Taking /\ ~HasLevelText(TakenLine)) =>
           /\ parsed' = parsed
           /\ outfile' = outfile
           /\ count' = count]_vars

\* a line with level Error after a space and a Spotify message was taken
PreFilterSensitiveWitness ==
    \E p \in Examined :
        /\ ~HasLevelText(lines[p])
        /\ Contains(lines[p], "\"@l\": \"Error\"")
        /\ Contains(lines[p], "Spotify")

(* C6  Substring match on message: taking a line that passes the           *)
(* pre-filter and parses, whose message does not contain "Spotify", writes *)
(* nothing and leaves the count as it is.                                  *)
MessageFilter ==
    [][(Taking /\ HasLevelText(TakenLine) /\ IsJson(TakenLine)
               /\ ~MessageHasSpotify(TakenLine)) =>
           /\ outfile' = outfile
           /\ count' = count]_vars

\* an Error line about something else was parsed, with the cap not reached
MessageFilterWitness ==
    \E p \in parsed :
        /\ IsJson(lines[p]) /\ EntryAt(p).k = "obj"
        /\ ~MessageHasSpotify(lines[p])
        /\ count < MaxMatches

\* the lines of a complete record for an entry
RecordKinds(entry) ==
    <<"main">> \o (IF HasKey(entry, "Status") THEN <<"Status">> ELSE <<>>)
               \o (IF HasKey(entry, "Response") THEN <<"Response">> ELSE <<>>)
               \o (IF HasKey(entry, "@x") THEN <<"Exception">> ELSE <<>>)

(* C7  Optional field rendering: the record of every matched entry is the  *)
(* main line, then a Status line iff the entry has Status, a Response line *)
(* iff it has Response, an Exception line iff it has @x, in that order.    *)
OptionalFields ==
    Scanning =>
        \A p \in MainPositions : KindsFrom(outfile.writes, p) = RecordKinds(EntryAt(p))

(* C8  Exception truncation: the record of every matched entry with an @x  *)
(* field has an Exception line that carries the first min(500, length)     *)
(* characters of @x and then the marker "...".                             *)
ExceptionExcerpt ==
    Scanning =>
        \A p \in MainPositions :
            HasKey(EntryAt(p), "@x") =>
                \E n \in 1..Len(outfile.writes) :
                    /\ outfile.writes[n].pos = p
                    /\ outfile.writes[n].kind = "Exception"
                    /\ outfile.writes[n].text =
                           "   Exception: "
                           \o SubSeq(PyStr(Get(EntryAt(p), "@x", JNull)), 1,
                                     Min(ExcerptLen, Len(PyStr(Get(EntryAt(p), "@x", JNull)))))
                           \o "...\n"

(* C9  Record/count atomicity: in every state of the scan the match count  *)
(* equals the number of main record lines written so far.                  *)
CountIsRecords == Scanning => count = Cardinality(MainWrites)

(* C10  Level of written records: every record written has the level      *)
(* Error or Warning as the value of its entry's @l field.                  *)
WrittenLevels ==
    Scanning =>
        \A p \in MainPositions : PyStr(Get(EntryAt(p), "@l", JNull)) \in {"Error", "Warning"}

====
